---- MODULE Spec2Model ----
(***************************************************************************)
(* Model of src/lib.rs of simple_unicode_normalization_forms: the scan of  *)
(* custom_normalization over the characters of the input, the per-character*)
(* step custom_character_normalization, the final canonical composition    *)
(* and the trim of the two entry points basic_string_clean and             *)
(* remove_emojis.  Characters are Unicode scalar values (integers), strings*)
(* are sequences of them.                                                  *)
(***************************************************************************)
EXTENDS Integers, Sequences, FiniteSets

(* ------------------------------------------------------------------ *)
(* Characters of the model, by their Unicode scalar value.             *)
(* ------------------------------------------------------------------ *)
NUL == \h0000              \* control character, src/lib.rs:128
TAB == \h0009              \* '\t', src/lib.rs:84
LF == \h000A               \* '\n', src/lib.rs:87
CR == \h000D               \* '\r', src/lib.rs:88
SP == \h0020               \* ' ',  src/lib.rs:50
LATIN_A == \h0061
LATIN_E == \h0065
LATIN_O == \h006F
LATIN_P == \h0070
DIAERESIS == \h00A8        \* compatibility decomposition <SP, COMB_DIAERESIS>
FEMININE_ORDINAL == \h00AA \* 'ª', src/lib.rs:82
MASCULINE_ORDINAL == \h00BA \* 'º', src/lib.rs:82
E_ACUTE == \h00E9          \* canonical decomposition <LATIN_E, COMB_ACUTE>
COMB_ACUTE == \h0301
COMB_DIAERESIS == \h0308
VS16 == \hFE0F             \* variation selector-16, src/lib.rs:131
MATH_ITALIC_P == \h1D45D   \* src/lib.rs:137, decomposes to LATIN_P
THUMBS_UP == \h1F44D       \* src/lib.rs:134

\* Longest input string the model explores.
MaxLen == 3

\* The characters the input strings are made of: one or more per class the
\* per-character step distinguishes.
Alphabet ==
    { LATIN_A, SP, TAB, LF, MASCULINE_ORDINAL, DIAERESIS, E_ACUTE,
      VS16, THUMBS_UP, NUL, MATH_ITALIC_P }

RECURSIVE StringsOfLen(_)
StringsOfLen(n) ==
    IF n = 0 THEN { <<>> }
    ELSE { Append(s, c) : s \in StringsOfLen(n - 1), c \in Alphabet }

Inputs == UNION { StringsOfLen(n) : n \in 0..MaxLen }

(* ------------------------------------------------------------------ *)
(* Library primitives, by what they do on the characters above.        *)
(* ------------------------------------------------------------------ *)

\* char::is_whitespace: the Unicode White_Space property.
is_whitespace(c) ==
    \/ c \in \h0009..\h000D
    \/ c \in { \h0020, \h0085, \h00A0, \h1680, \h2028, \h2029, \h202F, \h205F, \h3000 }
    \/ c \in \h2000..\h200A

\* unicode_normalization::char::decompose_compatible: the full compatibility
\* decomposition of one character, in order.
decompose_compatible(c) ==
    CASE c = DIAERESIS -> << SP, COMB_DIAERESIS >>
      [] c = FEMININE_ORDINAL -> << LATIN_A >>
      [] c = MASCULINE_ORDINAL -> << LATIN_O >>
      [] c = \h00E1 -> << LATIN_A, COMB_ACUTE >>
      [] c = \h00E4 -> << LATIN_A, COMB_DIAERESIS >>
      [] c = E_ACUTE -> << LATIN_E, COMB_ACUTE >>
      [] c = \h00EB -> << LATIN_E, COMB_DIAERESIS >>
      [] c = \h00F3 -> << LATIN_O, COMB_ACUTE >>
      [] c = \h00F6 -> << LATIN_O, COMB_DIAERESIS >>
      [] c = \h1E55 -> << LATIN_P, COMB_ACUTE >>
      [] c = MATH_ITALIC_P -> << LATIN_P >>
      [] OTHER -> << c >>

\* Canonical combining class: 0 for starters, 230 for the two marks.
combining_class(c) == IF c \in { COMB_ACUTE, COMB_DIAERESIS } THEN 230 ELSE 0

\* Primary composite of a starter and a combining mark, 0 when there is none.
composite(s, m) ==
    CASE s = LATIN_A /\ m = COMB_ACUTE -> \h00E1
      [] s = LATIN_A /\ m = COMB_DIAERESIS -> \h00E4
      [] s = LATIN_E /\ m = COMB_ACUTE -> E_ACUTE
      [] s = LATIN_E /\ m = COMB_DIAERESIS -> \h00EB
      [] s = LATIN_O /\ m = COMB_ACUTE -> \h00F3
      [] s = LATIN_O /\ m = COMB_DIAERESIS -> \h00F6
      [] s = LATIN_P /\ m = COMB_ACUTE -> \h1E55
      [] OTHER -> 0

\* Canonical decomposition of one character (first half of NFC).
decompose_canonical(c) ==
    CASE c = \h00E1 -> << LATIN_A, COMB_ACUTE >>
      [] c = \h00E4 -> << LATIN_A, COMB_DIAERESIS >>
      [] c = E_ACUTE -> << LATIN_E, COMB_ACUTE >>
      [] c = \h00EB -> << LATIN_E, COMB_DIAERESIS >>
      [] c = \h00F3 -> << LATIN_O, COMB_ACUTE >>
      [] c = \h00F6 -> << LATIN_O, COMB_DIAERESIS >>
      [] c = \h1E55 -> << LATIN_P, COMB_ACUTE >>
      [] OTHER -> << c >>

RECURSIVE DecomposeAll(_)
DecomposeAll(s) ==
    IF s = <<>> THEN <<>>
    ELSE decompose_canonical(Head(s)) \o DecomposeAll(Tail(s))

\* Canonical composition of a canonically decomposed string: a mark combines
\* with the last starter when a primary composite exists and no character
\* between the two blocks it.  acc = [out, starter, last]: the composed
\* prefix, the index in out of the last starter (0: none), the combining
\* class of the last character appended.
RECURSIVE Compose(_, _)
Compose(s, acc) ==
    IF s = <<>> THEN acc.out
    ELSE
        LET ch == Head(s)
            cc == combining_class(ch)
            adjacent == acc.starter = Len(acc.out)
            unblocked == adjacent \/ (acc.last # 0 /\ acc.last < cc)
            comp == IF acc.starter > 0 /\ unblocked
                    THEN composite(acc.out[acc.starter], ch) ELSE 0
        IN  IF comp # 0
            THEN Compose(Tail(s),
                         [acc EXCEPT !.out = [acc.out EXCEPT ![acc.starter] = comp]])
            ELSE Compose(Tail(s),
                         [out |-> Append(acc.out, ch),
                          starter |-> IF cc = 0 THEN Len(acc.out) + 1 ELSE acc.starter,
                          last |-> cc])

\* UnicodeNormalization::nfc.  Every combining mark of the model has class
\* 230, so the canonical reordering between the two halves moves nothing.
nfc(s) == Compose(DecomposeAll(s), [out |-> <<>>, starter |-> 0, last |-> 0])

RECURSIVE trim_start(_)
trim_start(s) ==
    IF s # <<>> /\ is_whitespace(Head(s)) THEN trim_start(Tail(s)) ELSE s

RECURSIVE trim_end(_)
trim_end(s) ==
    IF s # <<>> /\ is_whitespace(s[Len(s)])
    THEN trim_end(SubSeq(s, 1, Len(s) - 1)) ELSE s

\* Mutant of trim: trim_start called in its place.
trim_LeadingOnly(s) == trim_start(s)

\* str::trim: leading and trailing White_Space removed.
trim(s) == trim_end(trim_start(s))

(* ------------------------------------------------------------------ *)
(* The IsEmoji trait (mod emoji), after sections 4.2 and 4.3 of the    *)
(* specification.                                                      *)
(* ------------------------------------------------------------------ *)

\* Emoji_Presentation, Emoji_Modifier, Emoji_Modifier_Base (the ranges that
\* hold the characters of the model and their neighbours) and the five fixed
\* emoji-adjacent codepoints.
is_emoji(c) ==
    \/ c \in { \hFE0E, \hFE0F, \h20E2, \h20E3, \h20E4 }
    \/ c \in \h231A..\h231B
    \/ c \in \h23E9..\h23EC
    \/ c \in { \h261D, \h26F9 }
    \/ c \in \h270A..\h270D
    \/ c \in \h1F3FB..\h1F3FF
    \/ c \in \h1F442..\h1F4F7

\* Outside the Basic Multilingual Plane, or a C0/C1 control character.
is_char_to_avoid(c) ==
    \/ c > \hFFFF
    \/ c \in \h0000..\h001F
    \/ c \in \h007F..\h009F

(* ------------------------------------------------------------------ *)
(* custom_character_normalization, src/lib.rs:37-71.  Each branch      *)
(* gives the buffer and the flag the step returns.                     *)
(* ------------------------------------------------------------------ *)

AllowBranch(str, c) ==
    [str |-> Append(str, c), pw |-> FALSE]

\* Mutant of WhitespaceBranch: the character itself is pushed, not ' '.
WhitespaceBranch_PushesChar(str, c, collapse_whitespace, previous_whitespace) ==
    [str |-> IF ~collapse_whitespace \/ ~previous_whitespace
             THEN Append(str, c) ELSE str,
     pw |-> TRUE]

\* Mutant of WhitespaceBranch: && in the place of || in the condition.
WhitespaceBranch_AndCondition(str, c, collapse_whitespace, previous_whitespace) ==
    [str |-> IF ~collapse_whitespace /\ ~previous_whitespace
             THEN Append(str, SP) ELSE str,
     pw |-> TRUE]

\* c is the whitespace character of the input; the branch pushes ' ' for it.
WhitespaceBranch(str, c, collapse_whitespace, previous_whitespace) ==
    [str |-> IF ~collapse_whitespace \/ ~previous_whitespace
             THEN Append(str, SP) ELSE str,
     pw |-> TRUE]

\* Mutant of EmojiBranch: false returned, as after a pushed character.
EmojiBranch_ResetsFlag(str, previous_whitespace) ==
    [str |-> str, pw |-> FALSE]

EmojiBranch(str, previous_whitespace) ==
    [str |-> str, pw |-> previous_whitespace]

\* Mutant of DecomposeKept: every produced codepoint is pushed.
DecomposeKept_NoFilter(c) == decompose_compatible(c)

\* Mutant of DecomposeKept: the negation of the filter is lost.
DecomposeKept_InvertedFilter(c) ==
    SelectSeq(decompose_compatible(c), LAMBDA r : is_char_to_avoid(r))

\* The codepoints the closure of the decomposition branch pushes.
DecomposeKept(c) ==
    SelectSeq(decompose_compatible(c), LAMBDA r : ~is_char_to_avoid(r))

DecomposeBranch(str, c, previous_whitespace) ==
    LET kept == DecomposeKept(c)
        pushed == kept # <<>>
    IN  [str |-> str \o kept,
         pw |-> IF pushed THEN FALSE ELSE previous_whitespace]

\* Mutant of TakesEmojiBranch: the option is read negated.
TakesEmojiBranch_NegatedOption(c, remove_emojis_flag) ==
    ~remove_emojis_flag /\ is_emoji(c)

\* The condition of the emoji branch.
TakesEmojiBranch(c, remove_emojis_flag) == remove_emojis_flag /\ is_emoji(c)

\* Mutant of custom_character_normalization: the whitespace test comes
\* before the allow-list test.
custom_character_normalization_WhitespaceFirst(str, c, allow_chars, collapse_whitespace, previous_whitespace, remove_emojis_flag) ==
    IF is_whitespace(c)
    THEN [str |-> IF ~collapse_whitespace \/ ~previous_whitespace
                  THEN Append(str, SP) ELSE str,
          pw |-> TRUE]
    ELSE IF c \in allow_chars THEN [str |-> Append(str, c), pw |-> FALSE]
    ELSE IF remove_emojis_flag /\ is_emoji(c)
         THEN [str |-> str, pw |-> previous_whitespace]
    ELSE LET kept == SelectSeq(decompose_compatible(c),
                               LAMBDA r : ~is_char_to_avoid(r))
         IN  [str |-> str \o kept,
              pw |-> IF kept # <<>> THEN FALSE ELSE previous_whitespace]

custom_character_normalization(str, c, allow_chars, collapse_whitespace, previous_whitespace, remove_emojis_flag) ==
    IF c \in allow_chars THEN AllowBranch(str, c)
    ELSE IF is_whitespace(c)
         THEN WhitespaceBranch(str, c, collapse_whitespace, previous_whitespace)
    ELSE IF TakesEmojiBranch(c, remove_emojis_flag)
         THEN EmojiBranch(str, previous_whitespace)
    ELSE DecomposeBranch(str, c, previous_whitespace)

\* The loop of custom_normalization from the state st = [str, pw] over s.
RECURSIVE ScanFrom(_, _, _, _, _)
ScanFrom(st, s, allow_chars, collapse_whitespace, remove_emojis_flag) ==
    IF s = <<>> THEN st
    ELSE ScanFrom(custom_character_normalization(st.str, Head(s), allow_chars,
                      collapse_whitespace, st.pw, remove_emojis_flag),
                  Tail(s), allow_chars, collapse_whitespace, remove_emojis_flag)

custom_normalization(str, allow_chars, collapse_whitespace, remove_emojis_flag) ==
    nfc(ScanFrom([str |-> <<>>, pw |-> FALSE], str, allow_chars,
                 collapse_whitespace, remove_emojis_flag).str)

\* The allow set basic_string_clean builds, src/lib.rs:82-89.
AllowedChars(allow_tab, allow_eol) ==
    { MASCULINE_ORDINAL, FEMININE_ORDINAL }
        \cup (IF allow_tab THEN { TAB } ELSE {})
        \cup (IF allow_eol THEN { LF, CR } ELSE {})

basic_string_clean(v, allow_tab, allow_eol, collapse_whitespace, remove_emojis_flag) ==
    trim(custom_normalization(v, AllowedChars(allow_tab, allow_eol),
                              collapse_whitespace, remove_emojis_flag))

remove_emojis(v) ==
    trim(custom_normalization(v, { MASCULINE_ORDINAL, FEMININE_ORDINAL }, TRUE, TRUE))

(* ------------------------------------------------------------------ *)
(* One call as a state machine.                                        *)
(* ------------------------------------------------------------------ *)
VARIABLES
    pc,                   \* "idle", "scan" (inside the for loop), "done"
    entry,                \* the entry point called
    value,                \* the input string
    allowed_chars,        \* the allow set of the call
    collapse_whitespace,  \* option
    remove_emojis_opt,    \* option
    pos,                  \* number of characters of value consumed
    result,               \* the buffer of custom_normalization
    previous_whitespace,  \* the flag threaded through the scan
    output                \* the string returned

vars == << pc, entry, value, allowed_chars, collapse_whitespace,
           remove_emojis_opt, pos, result, previous_whitespace, output >>

Init ==
    /\ pc = "idle"
    /\ entry = "none"
    /\ value = <<>>
    /\ allowed_chars = {}
    /\ collapse_whitespace = FALSE
    /\ remove_emojis_opt = FALSE
    /\ pos = 0
    /\ result = <<>>
    /\ previous_whitespace = FALSE
    /\ output = <<>>

\* basic_string_clean is called: the allow set is built and the scan starts
\* with an empty buffer and the flag false.
CallBasicStringClean ==
    /\ pc = "idle"
    /\ \E v \in Inputs, allow_tab \in BOOLEAN, allow_eol \in BOOLEAN,
          cw \in BOOLEAN, re \in BOOLEAN :
          /\ value' = v
          /\ allowed_chars' = AllowedChars(allow_tab, allow_eol)
          /\ collapse_whitespace' = cw
          /\ remove_emojis_opt' = re
    /\ entry' = "basic_string_clean"
    /\ pc' = "scan"
    /\ pos' = 0
    /\ result' = <<>>
    /\ previous_whitespace' = FALSE
    /\ UNCHANGED output

\* remove_emojis is called: the fixed preset.
CallRemoveEmojis ==
    /\ pc = "idle"
    /\ \E v \in Inputs : value' = v
    /\ allowed_chars' = { MASCULINE_ORDINAL, FEMININE_ORDINAL }
    /\ collapse_whitespace' = TRUE
    /\ remove_emojis_opt' = TRUE
    /\ entry' = "remove_emojis"
    /\ pc' = "scan"
    /\ pos' = 0
    /\ result' = <<>>
    /\ previous_whitespace' = FALSE
    /\ UNCHANGED output

\* One iteration of the for loop of custom_normalization.
ScanChar ==
    /\ pc = "scan"
    /\ pos < Len(value)
    /\ LET st == custom_character_normalization(result, value[pos + 1],
                     allowed_chars, collapse_whitespace, previous_whitespace,
                     remove_emojis_opt)
       IN  /\ result' = st.str
           /\ previous_whitespace' = st.pw
    /\ pos' = pos + 1
    /\ UNCHANGED << pc, entry, value, allowed_chars, collapse_whitespace,
                    remove_emojis_opt, output >>

\* The loop is over: canonical composition, then the entry point's trim.
Return ==
    /\ pc = "scan"
    /\ pos = Len(value)
    /\ output' = trim(nfc(result))
    /\ pc' = "done"
    /\ UNCHANGED << entry, value, allowed_chars, collapse_whitespace,
                    remove_emojis_opt, pos, result, previous_whitespace >>

Next ==
    \/ CallBasicStringClean
    \/ CallRemoveEmojis
    \/ ScanChar
    \/ Return

Spec == Init /\ [][Next]_vars

(* ------------------------------------------------------------------ *)
(* Helpers of the properties.                                          *)
(* ------------------------------------------------------------------ *)
Done == pc = "done"

\* The characters of s that are in the set A, in order.
Proj(s, A) == SelectSeq(s, LAMBDA c : c \in A)

\* The entry point of the call applied to a string, with the call's options.
Reapply(s) ==
    IF entry = "remove_emojis" THEN remove_emojis(s)
    ELSE basic_string_clean(s, TAB \in allowed_chars, LF \in allowed_chars,
                            collapse_whitespace, remove_emojis_opt)

\* c takes the whitespace branch of the call.
TakesWhitespace(c) == c \notin allowed_chars /\ is_whitespace(c)

\* c is dropped by the call: the emoji branch, or the decomposition branch
\* with every produced codepoint rejected.
IsDropped(c) ==
    /\ c \notin allowed_chars
    /\ ~is_whitespace(c)
    /\ \/ remove_emojis_opt /\ is_emoji(c)
       \/ \A k \in 1..Len(decompose_compatible(c)) :
             is_char_to_avoid(decompose_compatible(c)[k])

NoDoubleSpace(s) == \A i \in 1..(Len(s) - 1) : ~(s[i] = SP /\ s[i + 1] = SP)

(* ------------------------------------------------------------------ *)
(* C1. Idempotence: applying the entry point of the call, with the same*)
(* options, to the string it returned gives that string again.         *)
(* ------------------------------------------------------------------ *)
C1_Idempotent == Done => Reapply(output) = output

(* ------------------------------------------------------------------ *)
(* C2. With collapse_whitespace the returned string never holds two    *)
(* consecutive ASCII spaces.                                           *)
(* ------------------------------------------------------------------ *)
C2_NoSpaceRun == (Done /\ collapse_whitespace) => NoDoubleSpace(output)

(* ------------------------------------------------------------------ *)
(* C3 as stated: the returned string never holds a whitespace character*)
(* other than the ASCII space.                                         *)
(* ------------------------------------------------------------------ *)
C3_OnlyAsciiSpace ==
    Done => \A i \in 1..Len(output) : is_whitespace(output[i]) => output[i] = SP

\* C3 as amended: every whitespace character of the returned string is the
\* ASCII space or a whitespace character of the call's allow set (tab under
\* allow_tab, LF and CR under allow_eol); remove_emojis, whose allow set holds
\* no whitespace, returns no whitespace but the ASCII space.
C3_OnlySpaceOrAllowed ==
    Done => \A i \in 1..Len(output) :
                is_whitespace(output[i]) =>
                    (output[i] = SP \/ output[i] \in allowed_chars)

\* A call that returned both kinds of whitespace: an allow-listed LF of the
\* input and an ASCII space, inside the string.
C3_Witness ==
    /\ Done
    /\ LF \in allowed_chars
    /\ \E j \in 1..Len(value) : value[j] = LF
    /\ \E i \in 1..Len(output) : output[i] = LF
    /\ \E k \in 1..Len(output) : output[k] = SP

(* ------------------------------------------------------------------ *)
(* C4. Allow-list fidelity: the allow-listed characters of the input   *)
(* are, in order and unchanged, the allow-listed characters of the     *)
(* composed buffer, and the returned string is that buffer less a      *)
(* leading and a trailing run of whitespace, so the only occurrences   *)
(* missing are those the trim removed at the edges.                    *)
(* ------------------------------------------------------------------ *)
C4_AllowListFidelity ==
    Done =>
        LET composed == nfc(result)
        IN  /\ Proj(composed, allowed_chars) = Proj(value, allowed_chars)
            /\ \E i \in 1..(Len(composed) + 1), j \in 0..Len(composed) :
                  /\ output = SubSeq(composed, i, j)
                  /\ \A k \in 1..Len(composed) :
                        (k < i \/ k > j) => is_whitespace(composed[k])
            /\ Proj(output, allowed_chars \ { TAB, LF, CR })
                   = Proj(value, allowed_chars \ { TAB, LF, CR })

\* With collapsing on, an allow-listed LF of the input is returned as itself
\* after an ordinal indicator, and a second allow-listed LF at the end of the
\* input is the one occurrence the trim removed.
C4_Witness ==
    /\ Done
    /\ collapse_whitespace
    /\ LF \in allowed_chars
    /\ Len(value) = 3
    /\ value[1] = MASCULINE_ORDINAL
    /\ value[2] = LF
    /\ \/ value[3] = LF /\ output = << MASCULINE_ORDINAL >>
       \/ value[3] = MASCULINE_ORDINAL /\ output = value

(* ------------------------------------------------------------------ *)
(* C5. Emoji closure: with remove_emojis no character of the returned  *)
(* string satisfies is_emoji.                                          *)
(* ------------------------------------------------------------------ *)
C5_EmojiClosure ==
    (Done /\ remove_emojis_opt) =>
        \A i \in 1..Len(output) : ~is_emoji(output[i])

\* A call with remove_emojis whose input held a BMP emoji codepoint and a
\* supplementary-plane one, and which returned something.
C5_Witness ==
    /\ Done
    /\ remove_emojis_opt
    /\ \E i \in 1..Len(value) : value[i] = VS16
    /\ \E i \in 1..Len(value) : value[i] = THUMBS_UP
    /\ output # <<>>

(* ------------------------------------------------------------------ *)
(* C6. BMP closure: no character of the returned string exceeds U+FFFF.*)
(* ------------------------------------------------------------------ *)
C6_BmpClosure == Done => \A i \in 1..Len(output) : output[i] <= \hFFFF

\* A call without remove_emojis whose input held a supplementary-plane
\* character that decomposes into the BMP and one that does not.
C6_Witness ==
    /\ Done
    /\ ~remove_emojis_opt
    /\ \E i \in 1..Len(value) : value[i] = MATH_ITALIC_P
    /\ \E i \in 1..Len(value) : value[i] = THUMBS_UP
    /\ output = << LATIN_P >>

(* ------------------------------------------------------------------ *)
(* C7. The returned string neither starts nor ends with an ASCII space.*)
(* ------------------------------------------------------------------ *)
C7_NoEdgeSpace ==
    (Done /\ output # <<>>) => (output[1] # SP /\ output[Len(output)] # SP)

\* A call whose composed buffer started and ended with a space.
C7_Witness ==
    /\ Done
    /\ Len(result) >= 3
    /\ result[1] = SP
    /\ result[Len(result)] = SP
    /\ output # <<>>

(* ------------------------------------------------------------------ *)
(* C8. An input made only of dropped characters (emoji under           *)
(* remove_emojis, characters whose decomposition is rejected whole),   *)
(* the empty input included, returns the empty string.                 *)
(* ------------------------------------------------------------------ *)
C8_AllDroppedIsEmpty ==
    (Done /\ \A i \in 1..Len(value) : IsDropped(value[i])) => output = <<>>

\* A finished call on an input holding a character dropped by the emoji
\* branch and one dropped by the decomposition branch, and nothing else.
C8_Witness ==
    /\ Done
    /\ remove_emojis_opt
    /\ \A i \in 1..Len(value) : IsDropped(value[i])
    /\ \E i \in 1..Len(value) : value[i] = VS16
    /\ \E i \in 1..Len(value) : value[i] = NUL

(* ------------------------------------------------------------------ *)
(* C9. Carry-forward on drop: the step on a dropped character changes  *)
(* neither the buffer nor previous_whitespace.  Hence, with collapsing,*)
(* an input of whitespace and dropped characters only, with at least   *)
(* one whitespace, leaves exactly one space in the buffer; and dropped *)
(* characters between characters that push no space leave no space.    *)
(* ------------------------------------------------------------------ *)
C9_OneSpace ==
    ( /\ pc \in { "scan", "done" }
      /\ pos = Len(value)
      /\ collapse_whitespace
      /\ \A i \in 1..Len(value) : TakesWhitespace(value[i]) \/ IsDropped(value[i])
      /\ \E i \in 1..Len(value) : TakesWhitespace(value[i]) )
    => result = << SP >>

C9_NoSeparator ==
    ( /\ pc \in { "scan", "done" }
      /\ \A i \in 1..pos :
            \/ IsDropped(value[i])
            \/ /\ ~TakesWhitespace(value[i])
               /\ \A k \in 1..Len(decompose_compatible(value[i])) :
                     decompose_compatible(value[i])[k] # SP )
    => \A k \in 1..Len(result) : result[k] # SP

C9_CarryForward ==
    /\ [][ (pc = "scan" /\ pos < Len(value) /\ IsDropped(value[pos + 1]))
            => (result' = result /\ previous_whitespace' = previous_whitespace) ]_vars
    /\ [](C9_OneSpace /\ C9_NoSeparator)

\* The scan has just dropped a character that stood between two whitespace
\* characters, with collapsing on: the flag is still set and the buffer
\* holds the one space.
C9_Witness ==
    /\ pc = "scan"
    /\ collapse_whitespace
    /\ pos = 3
    /\ TakesWhitespace(value[1])
    /\ IsDropped(value[2])
    /\ TakesWhitespace(value[3])
    /\ result = << SP >>
    /\ previous_whitespace

(* ------------------------------------------------------------------ *)
(* C10. Invariant of the scan: when previous_whitespace is set the     *)
(* buffer is not empty and ends with an ASCII space; the flag is false *)
(* when the scan starts; and it is set only if some character took the *)
(* whitespace branch and every character after it was dropped.         *)
(* ------------------------------------------------------------------ *)
C10_FlagMeansTrailingSpace ==
    /\ (pc = "scan" /\ pos = 0) => ~previous_whitespace
    /\ (pc \in { "scan", "done" } /\ previous_whitespace) =>
          /\ result # <<>>
          /\ result[Len(result)] = SP
          /\ \E j \in 1..pos :
                /\ TakesWhitespace(value[j])
                /\ \A k \in (j + 1)..pos : IsDropped(value[k])

\* The flag is set after a collapsed whitespace followed by a dropped
\* character.
C10_Witness ==
    /\ pc = "scan"
    /\ collapse_whitespace
    /\ pos = 3
    /\ previous_whitespace
    /\ TakesWhitespace(value[1])
    /\ TakesWhitespace(value[2])
    /\ IsDropped(value[3])

====
